---- MODULE Spec2Model ----
(***************************************************************************)
(* A model of django_cube/cube.py (class Cube and its collaborators) and   *)
(* of the concrete SimpleCube / SimpleCountMeasure of tests/test_cube.py.  *)
(*                                                                         *)
(* The source is Python 2 (dict.iteritems, eager filter(), generators that *)
(* end with "raise StopIteration"); the model follows Python 2 semantics.  *)
(*                                                                         *)
(* The heap of live cubes is the sequence "cubes": cubes[1] is the root    *)
(* built by the constructor, every cube returned by slice or yielded by    *)
(* a generator of iter_slices is a new object appended to it.  "gen" is    *)
(* the generator object the caller holds: iter_slices only creates it, its *)
(* body runs at the calls of next(), and other calls may come in between.  *)
(* "last" records the last call: its receiver, its arguments, its outcome. *)
(***************************************************************************)
EXTENDS Integers, Sequences, FiniteSets, TLC

VARIABLES cubes, gen, last
vars == <<cubes, gen, last>>

\* ---------------------------------------------------------------- bounds
MaxCubes == 3          \* live cube objects on the heap, specification Spec
MaxHookCubes == 2      \* live cube objects, specification SpecHook
MaxComputeCubes == 2   \* live cube objects, specification SpecMeasures
MaxMeasures == 2       \* length of the measures list of a root cube

\* ------------------------------------------------------------ the inputs
\* The names callers pass: the two declared dimensions of SimpleCube and one
\* name that is a field of the data rows but not a dimension.
ArgNames == {"instrument", "first_name", "last_name"}
\* The declared dimension names among them.
DimNames == {"instrument", "first_name"}
\* The *dim_names argument lists callers pass: no name, one name declared
\* or not, two names.
NameLists == { <<>>, <<"instrument">>, <<"first_name">>, <<"last_name">>,
               <<"first_name", "instrument">>, <<"instrument", "last_name">> }
\* The values callers pass for each name, as in compute_test.
ArgValues == [instrument |-> {"trumpet"},
              first_name |-> {"Miles", "Bill"},
              last_name  |-> {"Davis"}]

\* No error raised.
None == "None"
\* ValueError('invalid dimension %s'): the InvalidDimension error.
InvalidDimension == "ValueError: invalid dimension"
TypeError == "TypeError"
AttributeError == "AttributeError"
NotImplementedError == "NotImplementedError"

\* A constraint mapping (a Python dict) is a function from a set of names.
EmptyDict == <<>>
Keys(d) == DOMAIN d
Dicts(names, values) ==
    UNION { {d \in [ks -> UNION {values[k] : k \in ks}] :
                \A k \in ks : d[k] \in values[k]} : ks \in SUBSET names }

\* All argument tuples of length at most n over the set s.
SeqsUpTo(s, n) == UNION {[1..k -> s] : k \in 0..n}

\* ------------------------------------------------- test_cube.py fixtures
\* The rows of CubeTest.compute_test.
TestData ==
    << [first_name |-> "Bill",  last_name |-> "Evans", instrument |-> "piano"],
       [first_name |-> "Bill",  last_name |-> "Evans", instrument |-> "saxophone"],
       [first_name |-> "Miles", last_name |-> "Davis", instrument |-> "trumpet"] >>

\* Dimension.__init__: a dimension object holds its name and sample space.
Dimension(sample_space, name) == [_name |-> name, sample_space |-> sample_space]

\* Cube.__init__: the attributes every cube has.
Cube(measures, dimensions) ==
    [measures |-> measures, dimensions |-> dimensions, _constraint |-> EmptyDict]

\* SimpleCube.__init__: the root cube of the tests.
SimpleCube(data, measures) ==
    [ class       |-> "SimpleCube",
      data        |-> data,
      measures    |-> Cube(measures, <<>>).measures,
      dimensions  |-> <<Dimension(<<>>, "instrument"), Dimension(<<>>, "first_name")>>,
      _constraint |-> Cube(measures, <<>>)._constraint ]

\* A root cube of a subclass that implements the hook
\* get_sample_space(*dim_names) as the contract of iter_slices asks: its
\* dimensions carry their sample spaces, in the order the hook returns them.
HookedCube(data, measures) ==
    [ SimpleCube(data, measures) EXCEPT
        !.class = "HookedCube",
        !.dimensions = <<Dimension(<<"trumpet", "piano">>, "instrument"),
                         Dimension(<<"Miles", "Bill">>, "first_name")>> ]

\* Cube.dim_names: the names of the declared dimensions, in order.
dim_names(cube) == [i \in DOMAIN cube.dimensions |-> cube.dimensions[i]._name]

Range(s) == {s[i] : i \in DOMAIN s}

\* A check that raises on no name at all.
_check_dim_names_none(cube, names) == TRUE

\* A check that is satisfied by one valid name among the names.
_check_dim_names_any(cube, names) ==
    names = {} \/ \E n \in names : n \in Range(dim_names(cube))

\* Cube._check_dim_names: TRUE when the loop ends without raising, FALSE
\* when it raises ValueError('invalid dimension ...') on some name.
_check_dim_names(cube, names) == \A n \in names : n \in Range(dim_names(cube))

\* Cube._check_constraint: the keys of the constraint are checked.
_check_constraint(cube, constraint) == _check_dim_names(cube, Keys(constraint))

\* copy.deepcopy(self): a new object equal to the receiver in every field.
deepcopy(cube) == cube

\* An update in which the values already in the constraint are kept.
update_keep(constraint, extra_constraint) ==
    [k \in Keys(constraint) \cup Keys(extra_constraint) |->
        IF k \in Keys(constraint) THEN constraint[k] ELSE extra_constraint[k]]

\* The loop of Cube.slice: every pair of extra_constraint is assigned into
\* the copy's constraint.
update(constraint, extra_constraint) ==
    [k \in Keys(constraint) \cup Keys(extra_constraint) |->
        IF k \in Keys(extra_constraint) THEN extra_constraint[k] ELSE constraint[k]]

\* A slice without the deep copy: the receiver itself is updated and returned.
slice_heap_nocopy(heap, c, extra_constraint) ==
    LET cube_copy == [heap[c] EXCEPT !._constraint = update(@, extra_constraint)]
    IN  Append([heap EXCEPT ![c] = cube_copy], cube_copy)

\* Cube.slice past its check, on the heap: the receiver is heap[c], the
\* returned cube is the new last object of the heap.
slice_heap(heap, c, extra_constraint) ==
    Append(heap, [deepcopy(heap[c]) EXCEPT
                     !._constraint = update(@, extra_constraint)])

\* Cube._is_constrained is declared "def _is_constrained(dim_name)", without
\* self.  iter_slices calls it as the bound method self._is_constrained, so
\* the call passes two positional arguments to a one-parameter function and
\* raises TypeError before the body runs.
_is_constrained(cube, dim_name) == [err |-> TypeError, ret |-> FALSE]

\* The builtin filter(self._is_constrained, dim_names) of Python 2: eager,
\* calls the predicate on every element, keeps those it accepts.
filter(cube, names) ==
    IF \E i \in DOMAIN names : _is_constrained(cube, names[i]).err # None
    THEN [err |-> TypeError, ret |-> <<>>]
    ELSE [err |-> None,
          ret |-> SelectSeq(names, LAMBDA n : _is_constrained(cube, n).ret)]

\* The hook of a conforming subclass: one constraint mapping per point of
\* the cross product of the sample spaces of the named dimensions.
RECURSIVE HookedCube_points(_, _)
HookedCube_points(cube, args) ==
    IF args = <<>> THEN <<EmptyDict>>
    ELSE LET d == CHOOSE i \in DOMAIN cube.dimensions :
                     cube.dimensions[i]._name = Head(args)
             values == cube.dimensions[d].sample_space
             others == HookedCube_points(cube, Tail(args))
             point(n) == update(Head(args) :> values[((n - 1) \div Len(others)) + 1],
                                others[((n - 1) % Len(others)) + 1])
         IN  [n \in 1..(Len(values) * Len(others)) |-> point(n)]
HookedCube_get_sample_space(cube, args) ==
    [err |-> None, ret |-> HookedCube_points(cube, args)]

\* SimpleCube.get_sample_space(self): takes no dimension names, so the call
\* get_sample_space(*free_dim_names) with one or more names raises TypeError.
SimpleCube_get_sample_space(cube, args) ==
    IF args # <<>>
    THEN [err |-> TypeError, ret |-> <<>>]
    ELSE [err |-> None,
          ret |-> << [first_name |-> "Bill", instrument |-> "piano"],
                     [first_name |-> "Bill", instrument |-> "sax"],
                     [first_name |-> "Bill", instrument |-> "trumpet"],
                     [first_name |-> "Miles", instrument |-> "piano"],
                     [first_name |-> "Miles", instrument |-> "sax"],
                     [first_name |-> "Miles", instrument |-> "trumpet"],
                     [first_name |-> "Thelonious", instrument |-> "piano"],
                     [first_name |-> "Thelonious", instrument |-> "sax"],
                     [first_name |-> "Thelonious", instrument |-> "trumpet"] >>]

\* self.get_sample_space(*free_dim_names): dispatched on the cube's class.
get_sample_space(cube, args) ==
    IF cube.class = "SimpleCube"
    THEN SimpleCube_get_sample_space(cube, args)
    ELSE HookedCube_get_sample_space(cube, args)

\* The first next() on a generator of Cube.iter_slices: the body runs from
\* cube.py:91 to its first yield or to the exception that ends it.  The
\* result is the error raised (None at a yield), the cube yielded, whether
\* the generator is left suspended at the yield of cube.py:98, and whether
\* the hook get_sample_space was called.
iter_slices_first(cube, names) ==
    IF ~_check_dim_names(cube, Range(names))
    THEN [err |-> InvalidDimension, yielded |-> <<>>, suspended |-> FALSE,
          sampled |-> FALSE]
    ELSE LET free_dim_names == filter(cube, names) IN
         IF free_dim_names.err # None
         THEN [err |-> free_dim_names.err, yielded |-> <<>>, suspended |-> FALSE,
               sampled |-> FALSE]
         ELSE IF free_dim_names.ret = <<>>
         THEN [err |-> None, yielded |-> <<deepcopy(cube)>>, suspended |-> TRUE,
               sampled |-> FALSE]
         ELSE LET sample_space == get_sample_space(cube, free_dim_names.ret) IN
              IF sample_space.err # None
              THEN [err |-> sample_space.err, yielded |-> <<>>,
                    suspended |-> FALSE, sampled |-> TRUE]
              \* sorted(sample_space, key=self.sort_key): no cube class
              \* has an attribute sort_key; the AttributeError is not a
              \* NotImplementedError and is not caught, so the loop of
              \* cube.py:109-111 is never entered.
              ELSE [err |-> AttributeError, yielded |-> <<>>,
                    suspended |-> FALSE, sampled |-> TRUE]

\* A later next() on a generator suspended at cube.py:98: the body resumes
\* at "raise StopIteration" (cube.py:99) and the generator ends normally.
iter_slices_resume(cube, names) ==
    [err |-> None, yielded |-> <<>>, suspended |-> FALSE, sampled |-> FALSE]

\* "for slc in self.iter_slices(...)" inside one call: the generator run to
\* its end, first next() and then the resumptions.
iter_slices_run(cube, names) ==
    LET first == iter_slices_first(cube, names)
        rest  == IF first.suspended THEN iter_slices_resume(cube, names)
                 ELSE first
    IN  [err |-> rest.err, yielded |-> first.yielded \o
                              (IF first.suspended THEN rest.yielded ELSE <<>>),
         sampled |-> first.sampled \/ rest.sampled]

\* A filter that keeps the rows equal to the constraint on some key.
SimpleCountMeasure_filter_any(cube) ==
    SelectSeq(cube.data,
              LAMBDA item : \E k \in Keys(cube._constraint) :
                               item[k] = cube._constraint[k])

\* SimpleCountMeasure.filter: the rows that equal the constraint on every
\* one of its keys.
SimpleCountMeasure_filter(cube) ==
    SelectSeq(cube.data,
              LAMBDA item : \A k \in Keys(cube._constraint) :
                               item[k] = cube._constraint[k])

\* SimpleCountMeasure.compute: the number of filtered rows.
SimpleCountMeasure_compute(cube) ==
    [err |-> None, ret |-> Len(SimpleCountMeasure_filter(cube))]

\* Measure.compute, the abstract base: raises NotImplementedError.
Measure_compute(cube) == [err |-> NotImplementedError, ret |-> 0]

\* A second concrete measure, as the Measure contract allows: a pure
\* function of the cube's constraint and data, here the number of rows the
\* constraint leaves out.  Its value differs from the count of the matching
\* rows, so the position of a result in the tuple of compute can be told.
RestCountMeasure_compute(cube) ==
    [err |-> None,
     ret |-> Len(cube.data) - Len(SimpleCountMeasure_filter(cube))]

\* measure.compute(self) in Cube.compute, dispatched on the measure's class.
measure_compute(measure, cube) ==
    IF measure = "SimpleCountMeasure" THEN SimpleCountMeasure_compute(cube)
    ELSE IF measure = "RestCountMeasure" THEN RestCountMeasure_compute(cube)
    ELSE Measure_compute(cube)

\* A compute that returns its results in the reverse of the measures' order.
compute_run_reversed(cube) ==
    IF \E i \in DOMAIN cube.measures :
          measure_compute(cube.measures[i], cube).err # None
    THEN [err |-> NotImplementedError, ret |-> <<>>]
    ELSE [err |-> None,
          ret |-> [i \in DOMAIN cube.measures |->
                      measure_compute(cube.measures[Len(cube.measures) + 1 - i],
                                      cube).ret]]

\* Cube.compute: every measure in order, the results as a tuple; an error
\* of a measure propagates.
compute_run(cube) ==
    IF \E i \in DOMAIN cube.measures :
          measure_compute(cube.measures[i], cube).err # None
    THEN [err |-> NotImplementedError, ret |-> <<>>]
    ELSE [err |-> None,
          ret |-> [i \in DOMAIN cube.measures |->
                      measure_compute(cube.measures[i], cube).ret]]

\* "dim_name not in self.dimensions" compares a str with Dimension objects.
\* Dimension defines no __eq__, so the comparison is by identity and a name
\* is never found among the dimensions.
in_dimensions(cube, dim_name) ==
    \E i \in DOMAIN cube.dimensions : FALSE /\ cube.dimensions[i]._name = dim_name

\* Cube._pop_first_dim: looks at the first name only; it raises ValueError
\* when the name is not in self.dimensions; with free_only it reads
\* self.constraint, an attribute no cube has.
_pop_first_dim(cube, names, free_only) ==
    IF names = <<>>
    THEN [err |-> None, popped |-> None, rest |-> <<>>]
    ELSE IF ~in_dimensions(cube, Head(names))
    THEN [err |-> InvalidDimension, popped |-> None, rest |-> names]
    ELSE IF free_only
    THEN [err |-> AttributeError, popped |-> None, rest |-> names]
    ELSE [err |-> None, popped |-> Head(names), rest |-> Tail(names)]

\* Cube.measures_list.  Past a successful pop it iterates
\* self.iter_slices(next_dim_name) and, for each slice, recurses on the
\* remaining names or calls slc.measure(), a method no cube has.
RECURSIVE measures_list_run(_, _)
RECURSIVE measures_list_loop(_, _)
measures_list_loop(slices, rest) ==
    IF slices = <<>> THEN [err |-> None, ret |-> <<>>]
    ELSE LET item == IF rest # <<>> THEN measures_list_run(Head(slices), rest)
                     ELSE [err |-> AttributeError, ret |-> <<>>]
             more == measures_list_loop(Tail(slices), rest)
         IN  IF item.err # None THEN [err |-> item.err, ret |-> <<>>]
             ELSE IF more.err # None THEN more
             ELSE [err |-> None, ret |-> <<item.ret>> \o more.ret]
measures_list_run(cube, names) ==
    LET next_dim_name == _pop_first_dim(cube, names, FALSE) IN
    IF next_dim_name.err # None
    THEN [err |-> next_dim_name.err, ret |-> <<>>]
    ELSE IF next_dim_name.rest # <<>> \/ next_dim_name.popped # None
    THEN LET slices == iter_slices_run(cube, <<next_dim_name.popped>>) IN
         IF slices.err # None
         THEN [err |-> slices.err, ret |-> <<>>]
         ELSE measures_list_loop(slices.yielded, next_dim_name.rest)
    ELSE [err |-> None, ret |-> <<>>]

\* ------------------------------------------------------------ the state
\* "first" tells the first next() on a generator, "ended" the call at which
\* the generator ended, "total" the cubes it has yielded up to this call.
NoCall == [op |-> "init", cube |-> 0, names |-> <<>>, extra |-> EmptyDict,
           err |-> None, new |-> <<>>, value |-> <<>>, sampled |-> FALSE,
           first |-> FALSE, ended |-> FALSE, total |-> <<>>]

\* No generator held.
NoGen == [pc |-> "none", cube |-> 0, names |-> <<>>, yielded |-> <<>>]

\* The indices the heap gives to n new objects.
NewIds(n) == [i \in 1..n |-> Len(cubes) + i]

\* The root cube of compute_test.
Init ==
    /\ cubes = << SimpleCube(TestData, <<"SimpleCountMeasure">>) >>
    /\ gen = NoGen
    /\ last = NoCall

\* The root cube of a subclass that implements the sample-space hook.
InitHook ==
    /\ cubes = << HookedCube(TestData, <<"SimpleCountMeasure">>) >>
    /\ gen = NoGen
    /\ last = NoCall

\* Root cubes over other data sets and other measure lists.
DataSets == { TestData, <<TestData[3], TestData[3]>> }
MeasureClasses == {"SimpleCountMeasure", "RestCountMeasure", "Measure"}
MeasureLists == SeqsUpTo(MeasureClasses, MaxMeasures)
InitMeasures ==
    /\ \E data \in DataSets : \E measures \in MeasureLists :
          cubes = << SimpleCube(data, measures) >>
    /\ gen = NoGen
    /\ last = NoCall

\* cubes[c].slice(**extra_constraint)
slice(c, extra_constraint, max) ==
    /\ IF ~_check_constraint(cubes[c], extra_constraint)
       THEN /\ last' = [NoCall EXCEPT !.op = "slice", !.cube = c,
                                      !.extra = extra_constraint,
                                      !.err = InvalidDimension]
            /\ UNCHANGED cubes
       ELSE /\ Len(cubes) < max
            /\ cubes' = slice_heap(cubes, c, extra_constraint)
            /\ last' = [NoCall EXCEPT !.op = "slice", !.cube = c,
                                      !.extra = extra_constraint,
                                      !.new = NewIds(1)]
    /\ UNCHANGED gen

\* g = cubes[c].iter_slices(*names): the call of a generator function runs
\* none of its body; it returns the generator object, which the caller
\* holds in place of the one it held.
iter_slices(c, names) ==
    /\ gen' = [pc |-> "created", cube |-> c, names |-> names, yielded |-> <<>>]
    /\ last' = [NoCall EXCEPT !.op = "iter_slices", !.cube = c, !.names = names]
    /\ UNCHANGED cubes

\* next(g) on the generator held: the body runs from where it stands to the
\* next yield, whose cube is a new object, or to its end; a generator that
\* has ended is dropped.
next(max) ==
    /\ gen.pc # "none"
    /\ LET cube == cubes[gen.cube]
           r == IF gen.pc = "created"
                THEN iter_slices_first(cube, gen.names)
                ELSE iter_slices_resume(cube, gen.names)
           total == gen.yielded \o NewIds(Len(r.yielded))
       IN  /\ Len(cubes) + Len(r.yielded) <= max
           /\ cubes' = cubes \o r.yielded
           /\ gen' = IF r.suspended
                     THEN [gen EXCEPT !.pc = "suspended", !.yielded = total]
                     ELSE NoGen
           /\ last' = [NoCall EXCEPT !.op = "next", !.cube = gen.cube,
                                     !.names = gen.names, !.err = r.err,
                                     !.new = NewIds(Len(r.yielded)),
                                     !.sampled = r.sampled,
                                     !.first = (gen.pc = "created"),
                                     !.ended = ~r.suspended,
                                     !.total = total]

\* cubes[c].compute()
compute(c) ==
    LET r == compute_run(cubes[c]) IN
    /\ last' = [NoCall EXCEPT !.op = "compute", !.cube = c,
                              !.err = r.err, !.value = r.ret]
    /\ UNCHANGED <<cubes, gen>>

\* cubes[c].measures_list(*names)
measures_list(c, names) ==
    LET r == measures_list_run(cubes[c], names) IN
    /\ last' = [NoCall EXCEPT !.op = "measures_list", !.cube = c, !.names = names,
                              !.err = r.err, !.value = r.ret]
    /\ UNCHANGED <<cubes, gen>>

\* Slicing and iterating the cube of the tests.
Next ==
    \/ \E c \in DOMAIN cubes : \E extra \in Dicts(ArgNames, ArgValues) :
          slice(c, extra, MaxCubes)
    \/ \E c \in DOMAIN cubes : \E names \in NameLists :
          iter_slices(c, names)
    \/ next(MaxCubes)

Spec == Init /\ [][Next]_vars

\* Slicing, iterating and listing the measures of a cube with a hook.
NextHook ==
    \/ \E c \in DOMAIN cubes : \E extra \in Dicts(DimNames, ArgValues) :
          slice(c, extra, MaxHookCubes)
    \/ \E c \in DOMAIN cubes : \E names \in NameLists :
          iter_slices(c, names)
    \/ next(MaxHookCubes)
    \/ \E c \in DOMAIN cubes : \E names \in NameLists :
          measures_list(c, names)

SpecHook == InitHook /\ [][NextHook]_vars

\* Slicing and computing the measures.
NextMeasures ==
    \/ \E c \in DOMAIN cubes : \E extra \in Dicts(DimNames, ArgValues) :
          slice(c, extra, MaxComputeCubes)
    \/ \E c \in DOMAIN cubes : compute(c)

SpecMeasures == InitMeasures /\ [][NextMeasures]_vars

\* ---------------------------------------------------------- properties
\* The receiver of the last call, and the cubes it returned or yielded.
Receiver == cubes[last.cube]
Returned == [i \in DOMAIN last.new |-> cubes[last.new[i]]]
\* All the cubes the generator of the last next() has yielded.
Yielded == [i \in DOMAIN last.total |-> cubes[last.total[i]]]
Declared(cube) == Range(dim_names(cube))
SliceReturned == last.op = "slice" /\ last.err = None

\* C1: a successful C.slice(**E) leaves the constraint of C, and of every
\* other cube that existed before the call, exactly as it was.
C1_SliceLeavesCubesUnchanged ==
    [][ (last'.op = "slice" /\ last'.err = None) =>
          \A i \in DOMAIN cubes :
             /\ i \in DOMAIN cubes'
             /\ cubes'[i]._constraint = cubes[i]._constraint ]_vars

\* A derived, constrained cube has been sliced on a dimension it had already
\* constrained, while the root and the receiver were both live.
C1_Witness ==
    /\ SliceReturned
    /\ Len(cubes) >= 3
    /\ last.cube = 2
    /\ \E k \in Keys(last.extra) : k \in Keys(cubes[2]._constraint)

\* C2: a slice by a valid extension E does not fail, and the returned
\* cube's constraint is the receiver's merged with E, E winning on the keys
\* in both; slicing by pairs the receiver already has returns an equal
\* constraint.
C2_SliceMergesConstraint ==
    last.op = "slice" =>
       /\ (Keys(last.extra) \subseteq Declared(Receiver)) => last.err = None
       /\ last.err = None =>
            /\ Len(last.new) = 1
            /\ LET old == Receiver._constraint
                   new == Returned[1]._constraint
               IN  /\ Keys(new) = Keys(old) \cup Keys(last.extra)
                   /\ \A k \in Keys(last.extra) : new[k] = last.extra[k]
                   /\ \A k \in Keys(old) \ Keys(last.extra) : new[k] = old[k]
                   /\ (\A k \in Keys(last.extra) :
                          k \in Keys(old) /\ old[k] = last.extra[k]) => new = old

\* A slice has given a new value to a dimension the receiver had constrained.
C2_Witness ==
    /\ SliceReturned
    /\ \E k \in Keys(last.extra) \cap Keys(Receiver._constraint) :
          last.extra[k] # Receiver._constraint[k]

\* C3: C.slice(name=v) and the iteration of C.iter_slices(name), for a name
\* that is not a declared dimension, fail with InvalidDimension, return or
\* yield no cube and leave every cube as it was (the call of iter_slices
\* itself only creates the generator; the error comes at the first next()).
C3_InvalidDimensionRejected ==
    [][ /\ ( \/ /\ last'.op = "slice"
                /\ \E n \in ArgNames \ Declared(cubes[last'.cube]) :
                      Keys(last'.extra) = {n}
             \/ /\ last'.op = "next"
                /\ \E n \in ArgNames \ Declared(cubes[last'.cube]) :
                      last'.names = <<n>> )
           => /\ last'.err = InvalidDimension
              /\ last'.new = <<>>
              /\ last'.total = <<>>
              /\ last'.ended = (last'.op = "next")
              /\ cubes' = cubes
        /\ last'.op = "iter_slices" => (last'.new = <<>> /\ cubes' = cubes) ]_vars

\* A constrained cube has been sliced by an undeclared name.
C3_Witness ==
    /\ last.op = "slice"
    /\ Keys(last.extra) = {"last_name"}
    /\ Receiver._constraint # EmptyDict
    /\ last.err = InvalidDimension

\* C9: every live cube has a constraint over declared dimension names only
\* and the dimension names of the root; a rejected slice creates no cube.
C9_ConstraintKeysDeclared ==
    /\ [](\A i \in DOMAIN cubes :
             /\ Keys(cubes[i]._constraint) \subseteq Declared(cubes[i])
             /\ dim_names(cubes[i]) = dim_names(cubes[1]))
    /\ [][ (last'.op = "slice" /\ last'.err # None) =>
              (cubes' = cubes /\ last'.new = <<>>) ]_vars

\* A cube reached by a slice of a slice, constrained on both dimensions.
C9_Witness ==
    /\ SliceReturned
    /\ last.cube = 2
    /\ cubes[1]._constraint = EmptyDict
    /\ Keys(Returned[1]._constraint) = Declared(cubes[1])
    /\ Keys(cubes[2]._constraint) # Keys(Returned[1]._constraint)

\* C7: compute() returns a tuple with one element per measure, the i-th
\* being measures[i].compute(cube), and leaves every cube as it was (when a
\* measure raises, compute raises with it).
C7_ComputeAlignedWithMeasures ==
    /\ [](last.op = "compute" =>
            LET each == [i \in DOMAIN Receiver.measures |->
                           measure_compute(Receiver.measures[i], Receiver)]
            IN  IF \A i \in DOMAIN each : each[i].err = None
                THEN /\ last.err = None
                     /\ Len(last.value) = Len(Receiver.measures)
                     /\ \A i \in DOMAIN each : last.value[i] = each[i].ret
                ELSE last.err = NotImplementedError)
    /\ [][ last'.op = "compute" => cubes' = cubes ]_vars

\* Two measures of different values have been computed, in their declared
\* order, on a constrained cube.
C7_Witness ==
    /\ last.op = "compute"
    /\ last.err = None
    /\ Receiver._constraint # EmptyDict
    /\ Receiver.measures = <<"SimpleCountMeasure", "RestCountMeasure">>
    /\ Len(last.value) = 2
    /\ last.value[1] # last.value[2]
    /\ last.value[1] > 0

\* The number of rows equal to the constraint on every one of its keys.
Matching(data, constraint) ==
    Cardinality({i \in DOMAIN data :
                    \A k \in Keys(constraint) : data[i][k] = constraint[k]})

\* C8: with the single count measure, compute() is the 1-tuple of the
\* number of the root's rows that match the cube's constraint: all the rows
\* on the unconstrained root, none when no row matches; every cube holds
\* the rows of the root.
C8_CountMatchesRows ==
    cubes[1].measures = <<"SimpleCountMeasure">> =>
       /\ \A i \in DOMAIN cubes : cubes[i].data = cubes[1].data
       /\ last.op = "compute" =>
            /\ last.err = None
            /\ last.value = << Matching(cubes[1].data, Receiver._constraint) >>
            /\ Receiver._constraint = EmptyDict =>
                  last.value = << Len(cubes[1].data) >>

\* compute_test: the slice first_name='Miles', instrument='trumpet' of the
\* three rows counts one row.
C8_Witness ==
    /\ last.op = "compute"
    /\ cubes[1].measures = <<"SimpleCountMeasure">>
    /\ cubes[1].data = TestData
    /\ last.cube # 1
    /\ Receiver._constraint = [first_name |-> "Miles", instrument |-> "trumpet"]
    /\ last.value = <<1>>

\* The names of a call that are declared and not constrained on the receiver.
FreeNames == {n \in Range(last.names) :
                 n \in Declared(Receiver) /\ n \notin Keys(Receiver._constraint)}
\* The points the hook returns for the names of the call.
Points == get_sample_space(Receiver, last.names).ret

\* C4: when every name passed to iter_slices is declared and already
\* constrained, the iteration yields exactly one cube, with the receiver's
\* constraint, and then ends, without a call of get_sample_space: the first
\* next() yields that cube, the second ends the generator.
C4_ConstrainedNamesYieldOneCopy ==
    ( /\ last.op = "next"
      /\ Range(last.names) \subseteq Declared(Receiver)
      /\ Range(last.names) \subseteq Keys(Receiver._constraint) )
    => /\ last.err = None
       /\ ~last.sampled
       /\ Len(last.total) = 1
       /\ Yielded[1]._constraint = Receiver._constraint
       /\ last.first => (Len(last.new) = 1 /\ ~last.ended)
       /\ ~last.first => (last.new = <<>> /\ last.ended)

\* C5: iter_slices(d), d declared and free, the hook returning N points,
\* yields exactly N cubes, one per point, each with d constrained to the
\* value of its point and the receiver's other constraints unchanged: so
\* stands the iteration when the generator has ended.
C5_OneSlicePerPoint ==
    ( /\ last.op = "next"
      /\ last.ended
      /\ Len(last.names) = 1
      /\ FreeNames = Range(last.names)
      /\ get_sample_space(Receiver, last.names).err = None )
    => /\ Len(last.total) = Len(Points)
       /\ \E f \in [DOMAIN Points -> DOMAIN last.total] :
             /\ \A i, j \in DOMAIN Points : f[i] = f[j] => i = j
             /\ \A i \in DOMAIN Points :
                   LET new == Yielded[f[i]]._constraint
                   IN  /\ Keys(new) = Keys(Receiver._constraint) \cup Keys(Points[i])
                       /\ \A k \in Keys(Points[i]) : new[k] = Points[i][k]
                       /\ \A k \in Keys(Receiver._constraint) :
                             new[k] = Receiver._constraint[k]

\* C6: without a sort key, iter_slices over a free dimension raises no
\* error at any next(), and when it has ended its i-th cube is the slice by
\* the i-th point of the hook.
C6_SourceOrderWithoutSortKey ==
    ( /\ last.op = "next"
      /\ Len(last.names) = 1
      /\ FreeNames = Range(last.names)
      /\ get_sample_space(Receiver, last.names).err = None )
    => /\ last.err = None
       /\ last.ended =>
            /\ DOMAIN last.total = DOMAIN Points
            /\ \A i \in DOMAIN last.total :
                  Yielded[i]._constraint = update(Receiver._constraint, Points[i])

\* C10: measures_list(*names), the names all declared, returns without an
\* error; with a free name among them the outer list has one entry per
\* slice of the first free name.
C10_MeasuresListReturns ==
    ( /\ last.op = "measures_list"
      /\ Range(last.names) \subseteq Declared(Receiver) )
    => /\ last.err = None
       /\ FreeNames # {} =>
            LET first == CHOOSE i \in DOMAIN last.names :
                            /\ last.names[i] \in FreeNames
                            /\ \A j \in 1..(i - 1) : last.names[j] \notin FreeNames
            IN  Len(last.value) =
                   Len(get_sample_space(Receiver, <<last.names[first]>>).ret)
====
